---- MODULE Spec2Model ----
(***************************************************************************)
(* Model of the asset-pipe-server bundling core: createHashFromContent,    *)
(* fetchFeeds, parseFeeds, bundleFeeds, upload, bundleAndUpload, parseBody *)
(* and validateFeeds, with the ids schema of lib/schemas.js.  One call of  *)
(* one exported function is followed from its arguments to its result or   *)
(* error: the p-retry loops around sink.get / sink.set, Promise.all over   *)
(* the per-id fetches, and the Boom classification of every failure.       *)
(*                                                                         *)
(* Strings are sequences of string tokens (the file name "a.json" is       *)
(* <<"a", ".", "json">>, "dquote" stands for the double quote character),  *)
(* byte contents are sequences of naturals.  sink.get, sink.set and the    *)
(* bundlers are the environment: each attempt succeeds or fails by choice. *)
(***************************************************************************)
EXTENDS Naturals, Sequences, FiniteSets, TLC

\* ------------------------------------------------------------------ bounds

\* Longest feed-id list handed to fetchFeeds / bundleAndUpload.
MaxIds == 2

\* Largest `retries` argument of a direct fetchFeeds / upload call.
MaxRetries == 2

\* Longest explicitly enumerated array handed to validateFeeds.
MaxItems == 2

\* Longest feed-id list of two bundleAndUpload calls running together.
TwinMaxIds == 1

\* Longest feed-id list of the bundleAndUpload calls followed to their end.
LiveMaxIds == 1

\* ------------------------------------------------------- program constants

\* bundleAndUpload: fetchFeeds(sink, feedIds, 3) and upload(..., 3).
PipelineRetries == 3

\* schemas.ids: .min(1) and .max(100).
MinFeeds == 1
MaxFeeds == 100

\* Length of a hex encoded sha256 digest.
DigestLen == 64

\* ------------------------------------------------------------ small helpers

SeqsUpTo(S, n) == UNION {[1..k -> S] : k \in 0..n}

\* String.prototype.includes for a needle that is one token.
Includes(msg, token) == \E i \in 1..Len(msg) : msg[i] = token

\* ------------------------------------------------------------------ errors

\* An Error object: Boom.boomify marks it (isBoom), gives it a status code
\* and the message handed to boomify; the message it had before is kept as
\* `cause`.
NoError == [isBoom |-> FALSE, status |-> 0, message |-> <<>>, cause |-> <<>>]

PlainError(msg) ==
    [isBoom |-> FALSE, status |-> 0, message |-> msg, cause |-> <<>>]

\* Boom.boomify(err, {statusCode, message}); statusCode defaults to 500.
Boomify(err, statusCode, msg) ==
    [isBoom |-> TRUE, status |-> statusCode, message |-> msg,
     cause |-> err.message]

DefaultStatus == 500

\* -------------------------------------------------------------------- sink

\* Feed ids used as inputs.  "missingjson" has no dot before its "json".
FeedA       == <<"a", ".", "json">>
FeedB       == <<"b", ".", "json">>
BadFeed     == <<"bad", ".", "json">>
MissingJson == <<"missing", ".", "json">>
MissingJs   == <<"missing", ".", "js">>
NoDotJson   == <<"missing", "json">>
FeedACopy   == <<"a2", ".", "json">>

FeedIdSet == {FeedA, FeedB, BadFeed, MissingJson, MissingJs, NoDotJson}

\* JSON texts: '{' = 123, '}' = 125, one payload byte in between.  The text
\* stored under bad.json misses its closing brace.
TextA   == <<123, 1, 125>>
TextB   == <<123, 2, 125>>
TextBad == <<123, 3>>

\* The sink before any bundle is requested: the uploaded feeds, a2.json
\* being a second upload of the text of a.json.
InitialSink ==
    (FeedA :> TextA) @@ (FeedB :> TextB) @@ (BadFeed :> TextBad)
        @@ (FeedACopy :> TextA)

\* What sink.get(file) can do: hand back the stored bytes, fail because the
\* key is absent ("No file with name ..."), or fail for any other reason.
SinkNotFoundError(file) ==
    PlainError(<<"No file with name", "dquote">> \o file \o <<"dquote">>)

SinkTransientError == PlainError(<<"ETIMEDOUT">>)

SinkGetOutcomes(s, file) ==
    (IF file \in DOMAIN s
        THEN {[ok |-> TRUE, val |-> s[file], err |-> NoError]}
        ELSE {[ok |-> FALSE, val |-> <<>>, err |-> SinkNotFoundError(file)]})
    \cup {[ok |-> FALSE, val |-> <<>>, err |-> SinkTransientError]}

\* What sink.set(fileName, content) can do: store the bytes, or fail: with a
\* "No file with name ..." error as sink.get does, or for any other reason.
SinkSetOutcomes(fileName) ==
    {[ok |-> TRUE, err |-> NoError],
     [ok |-> FALSE, err |-> SinkNotFoundError(fileName)],
     [ok |-> FALSE, err |-> SinkTransientError]}

\* Fault variant: a write leaves nothing else in the sink.
SinkSetReplacesAll(s, fileName, content) == (fileName :> content)

\* Fault variant: a write to an existing name appends to what is stored.
SinkSetAppends(s, fileName, content) ==
    (fileName :> ((IF fileName \in DOMAIN s THEN s[fileName] ELSE <<>>)
                     \o content)) @@ s

\* sink.set(fileName, content): creates or overwrites.
SinkSet(s, fileName, content) == (fileName :> content) @@ s

\* ------------------------------------------------------------ pure functions

HexDigits ==
    <<"0", "1", "2", "3", "4", "5", "6", "7",
      "8", "9", "a", "b", "c", "d", "e", "f">>

RECURSIVE Fold(_, _)
Fold(bytes, acc) ==
    IF bytes = <<>> THEN acc
    ELSE Fold(Tail(bytes), (acc * 31 + Head(bytes)) % 65536)

Pow16(k) == IF k = 0 THEN 1 ELSE IF k = 1 THEN 16 ELSE IF k = 2 THEN 256 ELSE 4096

\* crypto sha256 hex digest, as a 16 bit rolling digest spelled out over
\* DigestLen lowercase hex digits: a function of the bytes alone.
createHashFromContent(content) ==
    [i \in 1..DigestLen |->
        HexDigits[((Fold(content, 7) \div Pow16(i % 4)) % 16) + 1]]

\* Fault variant: a name that ignores the content.
FileNameWithoutHash(content, type) == <<"bundle", ".", type>>

\* Fault variant: the hash and the type are joined without the dot.
FileNameWithoutDot(content, type) == createHashFromContent(content) \o <<type>>

\* `${createHashFromContent(content)}.${type}`
FileNameOf(content, type) == createHashFromContent(content) \o <<".", type>>

\* {file: fileName, uri: uri + fileName}
NoResult == [file |-> <<>>, uri |-> <<>>]

\* Fault variant: the file is named under the uri it is served from.
ResultNamedUnderUri(uri, fileName) ==
    [file |-> uri \o fileName, uri |-> uri \o fileName]

ResultOf(uri, fileName) == [file |-> fileName, uri |-> uri \o fileName]

\* JSON.parse of a stored text: '{' payload '}'.
IsJson(text) == Len(text) = 3 /\ text[1] = 123 /\ text[3] = 125

JSONparse(text) == text[2]

\* Fault variant: a text that does not parse is passed on.
ParseNeverThrows(rawFeeds) == FALSE

\* Fault variant: only the first text is looked at.
ParseThrowsOnFirstOnly(rawFeeds) ==
    Len(rawFeeds) > 0 /\ ~IsJson(rawFeeds[1])

\* rawFeeds.map(JSON.parse) throws as soon as one text does not parse.
ParseThrows(rawFeeds) == \E i \in 1..Len(rawFeeds) : ~IsJson(rawFeeds[i])

ParsedFeeds(rawFeeds) == [i \in 1..Len(rawFeeds) |-> JSONparse(rawFeeds[i])]

\* The two bundlers: the produced bytes start with a marker of the bundler
\* ('j' = 106, 'c' = 99) and keep the feeds in the order given.
bundleJS(feeds) == <<106>> \o feeds

bundleCSS(feeds) == <<99>> \o feeds

BundlerRawError == PlainError(<<"bundler exploded">>)

\* Fault variant: only 'js' goes to the JS bundler.
BundlerForExactTypes(type) == IF type = "js" THEN "js" ELSE "css"

\* if (type === 'css') ... else ...
BundlerFor(type) == IF type = "css" THEN "css" ELSE "js"

BundleOf(feeds, which) == IF which = "css" THEN bundleCSS(feeds) ELSE bundleJS(feeds)

BundleMessage(which) ==
    IF which = "css" THEN <<"Unable to bundle feeds as CSS.">>
    ELSE <<"Unable to bundle feeds as JS.">>

FetchMessage == <<"Unable to fetch 1 or more feeds from storage.">>

ParseMessage == <<"Unable to parse 1 or more feeds as JSON.">>

\* The message the test 'upload() handles errors correctly' expects.
TestedUploadMessage(fileName) ==
    <<"Unable to upload file with name", "dquote">> \o fileName \o <<"dquote">>

UploadMessage(fileName) ==
    <<"Unable to upload bundle with fileName", "dquote">> \o fileName
        \o <<"dquote", "to storage.">>

\* new pretry.AbortError(`File "${file}" not found.`)
NotFoundMessage(file) == <<"File", "dquote">> \o file \o <<"dquote", "not found.">>

\* Fault variant: a not-found is retried like any other failure.
NeverAborts(err) == FALSE

\* err.message.includes('No file with name')
IsSinkNotFound(err) == Includes(err.message, "No file with name")

\* /File ".*json" not found/.test(err.message)
\* (a name ends in the token "json" exactly when its characters end in json)
MatchesJsonNotFound(msg) ==
    \E i \in 1..Len(msg) : \E j \in (i + 2)..Len(msg) :
        /\ msg[i] = "File" /\ msg[i + 1] = "dquote"
        /\ msg[j] = "json"
        /\ j + 2 <= Len(msg)
        /\ msg[j + 1] = "dquote" /\ msg[j + 2] = "not found."

\* Fault variant: the not-found is never told apart.
FetchStatusAlways500(err) == 500

FetchStatus(err) == IF MatchesJsonNotFound(err.message) THEN 404 ELSE 500

\* Fault variant: one attempt more than retries + 1.
RetryOnceMore(attemptsMade, r) == attemptsMade <= r + 1

\* Fault variant: no second attempt.
RetryNever(attemptsMade, r) == FALSE

\* p-retry: after a failed attempt, try again while fewer than retries + 1
\* attempts have been made.
RetryAgain(attemptsMade, r) == attemptsMade <= r

\* Fault variant: the values in the order the tasks completed.
PromiseAllByCompletion(ts, ord) == [i \in 1..Len(ts) |-> ts[ord[i]].val]

\* Promise.all: the values of the tasks, by position.
PromiseAll(ts, ord) == [i \in 1..Len(ts) |-> ts[i].val]

\* ------------------------------------------------------------------- state

VARIABLES
    op,        \* the exported function that was called ("none" before)
    pc,        \* where that call stands
    sink,      \* the sink: file name -> stored bytes
    type,      \* argument: asset type
    ids,       \* argument: the feed ids
    uri,       \* argument: base uri
    retries,   \* the retries handed to p-retry
    tasks,     \* one p-retry task per id: state, sink.get calls made, ...
    order,     \* positions of the fulfilled tasks, in order of completion
    all,       \* the Promise.all over the tasks
    fetched,   \* what fetchFeeds returned
    parsed,    \* what parseFeeds returned
    bundler,   \* the bundler that was invoked ("none" before)
    content,   \* what bundleFeeds returned
    fileName,  \* the name handed to upload
    sets,      \* sink.set calls made
    result,    \* what bundleAndUpload returned
    error,     \* the error the call failed with
    arg,       \* argument of validateFeeds
    req,       \* argument of parseBody
    retval,    \* what validateFeeds / parseBody returned
    options,     \* argument: the options handed to bundleFeeds
    bundlerOpts, \* the options the invoked bundler received
    feedIdsType, \* argument: what kind of value feedIds is
    run,         \* 1 in a first bundleAndUpload, 2 in the one after it
    first,       \* what the first bundleAndUpload returned and stored
    twin,        \* a second bundleAndUpload running at the same time
    retriesGiven \* argument: whether `retries` was passed at all

\* The variables only some operations touch.
more == <<options, bundlerOpts, feedIdsType, run, first, twin>>

\* fetchFeeds(sink, ids, retries = 0), upload(sink, fileName, content,
\* retries = 0): the value of `retries` when the argument is left out.
DefaultRetries == 0

RetriesParameter(given, r) == IF given THEN r ELSE DefaultRetries

vars == <<op, pc, sink, type, ids, uri, retries, tasks, order, all, fetched,
          parsed, bundler, content, fileName, sets, result, error, arg, req,
          retval, options, bundlerOpts, feedIdsType, run, first, twin,
          retriesGiven>>

Types == {"js", "css", "html"}

BaseUri == <<"http://host/bundle/">>

OtherUri == <<"https://cdn/">>

\* The options of bundleFeeds: none given, or {env: 'production'}.
NoOptions == <<>>

OptionValues == {NoOptions, <<"env", "production">>}

\* What is kept of a first bundleAndUpload: its feedIds, its bundle, the
\* file it returned and the bytes the sink held under that name.
NoFirst == [ids |-> <<>>, content |-> <<>>, file |-> <<>>, bytes |-> <<>>]

\* The feedIds of a bundleAndUpload that follows a first one: the same
\* list, the list naming a2.json in place of a.json, or the list reversed.
Renamed(l) == [i \in 1..Len(l) |-> IF l[i] = FeedA THEN FeedACopy ELSE l[i]]

Reverse(l) == [i \in 1..Len(l) |-> l[Len(l) + 1 - i]]

SecondFeedIds(l) == {l, Renamed(l), Reverse(l)}

\* The state of a pipeline run that has not started.
IdleRun ==
    [pc |-> "idle", tasks |-> <<>>, all |-> [st |-> "pending", err |-> NoError],
     fetched |-> <<>>, parsed |-> <<>>, content |-> <<>>, fileName |-> <<>>,
     sets |-> 0, result |-> NoResult, error |-> NoError]

NewTask ==
    [st |-> "pending", gets |-> 0, fails |-> 0, nf |-> 0, val |-> <<>>,
     err |-> NoError]

PendingAll == [st |-> "pending", err |-> NoError]

\* --------------------------------------------------------------- JS values

\* A JavaScript value handed to validateFeeds: its type, the text of a
\* string, the entries of an array.  A string whose text is the JSON
\* encoding of an array carries s = "json" and that array's entries.
Str(text)       == [t |-> "string", s |-> text, items |-> <<>>]
Null            == [t |-> "null", s |-> "", items |-> <<>>]
Undefined       == [t |-> "undefined", s |-> "", items |-> <<>>]
Num             == [t |-> "number", s |-> "7", items |-> <<>>]
Obj             == [t |-> "object", s |-> "", items |-> <<>>]
Arr(entries)    == [t |-> "array", s |-> "", items |-> entries]
JsonText(array) == [t |-> "string", s |-> "json", items |-> array.items]

Entries == {Str("a.json"), Str(""), Null, Undefined, Num}

ShortArrays == {Arr(e) : e \in SeqsUpTo(Entries, MaxItems)}

LongArrays ==
    {Arr([i \in 1..n |-> Str("a.json")]) : n \in (MaxFeeds - 1)..(MaxFeeds + 1)}
    \cup {Arr([i \in 1..MaxFeeds |-> IF i = MaxFeeds THEN Null ELSE Str("a.json")])}

NonArrays ==
    {Null, Undefined, Num, Obj, Str("a.json"), Str(""),
     JsonText(Arr(<<Str("a.json")>>)), JsonText(Arr(<<>>)),
     JsonText(Arr(<<Num>>))}

Values == ShortArrays \cup LongArrays \cup NonArrays

\* Joi.string().required(): a string, and not the empty one.
JoiString(e) == e.t = "string" /\ e.s # ""

\* Joi.array() under the default `convert`: a string is run through
\* JSON.parse first and replaced by the outcome when that is an array.
JoiArrayCoerce(v) ==
    IF v.t = "string" /\ v.s = "json" THEN Arr(v.items) ELSE v

\* schemas.ids: .items(Joi.string().required()).sparse().min(1).max(100).
\* The one item schema is required, so an undefined entry fails it even
\* under sparse().
IdsError(v) ==
    LET a == JoiArrayCoerce(v) IN
        \/ a.t # "array"
        \/ \E i \in 1..Len(a.items) : ~JoiString(a.items[i])
        \/ Len(a.items) < MinFeeds
        \/ Len(a.items) > MaxFeeds

IdsValue(v) == JoiArrayCoerce(v)

ValidateMessage == <<"Invalid feed data given in POST-body.">>

BodyMessage == <<"No feed data given in POST-body.">>

\* A request: the text of its body is empty, blank, not JSON, or the JSON
\* encoding of `value`.
Requests ==
    {[text |-> k, value |-> Undefined] : k \in {"empty", "blank", "malformed"}}
    \cup {[text |-> "json", value |-> v] : v \in (ShortArrays \cup {Null, Obj})}

NoRequest == [text |-> "none", value |-> Undefined]

\* Fault variant: the body is never refused.
BodyAlwaysParses(q) == FALSE

\* body/json: JSON.parse of the body text.
BodyThrows(q) == q.text # "json"

\* -------------------------------------------------------------------- Init

Init ==
    /\ op = "none"
    /\ pc = "idle"
    /\ sink = InitialSink
    /\ type = "none"
    /\ ids = <<>>
    /\ uri = <<>>
    /\ retries = 0
    /\ tasks = <<>>
    /\ order = <<>>
    /\ all = PendingAll
    /\ fetched = <<>>
    /\ parsed = <<>>
    /\ bundler = "none"
    /\ content = <<>>
    /\ fileName = <<>>
    /\ sets = 0
    /\ result = NoResult
    /\ error = NoError
    /\ arg = Undefined
    /\ req = NoRequest
    /\ retval = Undefined
    /\ options = NoOptions
    /\ bundlerOpts = NoOptions
    /\ feedIdsType = "array"
    /\ run = 1
    /\ first = NoFirst
    /\ twin = IdleRun
    /\ retriesGiven = TRUE

\* ------------------------------------------------------------------- calls

\* bundleAndUpload({sink, type, feedIds, uri}): the assertion, then
\* fetchFeeds(sink, feedIds, 3) starts one p-retry task per id.
AssertionMessage == <<"Expected at least 1 feed id, but got">>

\* What feedIds can be: an array of ids, or a value that is no array (a
\* string such as 'a.json', which has a length of its own, or undefined).
FeedIdsTypes == {"array", "string", "undefined"}

\* Fault variant: the assertion looks at the length alone.
AssertLengthOnly(kind, l) == kind = "string" \/ (kind = "array" /\ Len(l) > 0)

\* Array.isArray(feedIds) && feedIds.length > 0
AssertOk(kind, l) == kind = "array" /\ Len(l) > 0

CallBundleAndUpload ==
    /\ pc = "idle"
    /\ \E t \in Types, k \in FeedIdsTypes :
       \E l \in (IF k = "array" THEN SeqsUpTo(FeedIdSet, MaxIds) ELSE {<<>>}) :
        /\ op' = "bundleAndUpload"
        /\ type' = t
        /\ feedIdsType' = k
        /\ ids' = l
        /\ uri' = BaseUri
        /\ IF AssertOk(k, l)
              THEN /\ pc' = "fetch"
                   /\ retries' = PipelineRetries
                   /\ tasks' = [i \in 1..Len(l) |-> NewTask]
                   /\ error' = error
              ELSE /\ pc' = "failed"
                   /\ error' = PlainError(AssertionMessage)
                   /\ UNCHANGED <<retries, tasks>>
    /\ UNCHANGED <<sink, order, all, fetched, parsed, bundler, content,
                   fileName, sets, result, arg, req, retval, options,
                   bundlerOpts, run, first, twin, retriesGiven>>

\* bundleAndUpload called once more, after a first call has returned, with
\* the same sink and type.
CallBundleAndUploadAgain ==
    /\ op = "bundleAndUpload"
    /\ pc = "done"
    /\ run = 1
    /\ twin.pc = "idle"
    /\ run' = 2
    /\ first' = [ids |-> ids, content |-> content, file |-> result.file,
                 bytes |-> sink[fileName]]
    /\ \E l \in SecondFeedIds(ids), u \in {BaseUri, OtherUri} :
        /\ ids' = l
        /\ uri' = u
        /\ tasks' = [i \in 1..Len(l) |-> NewTask]
    /\ pc' = "fetch"
    /\ order' = <<>>
    /\ all' = PendingAll
    /\ fetched' = <<>>
    /\ parsed' = <<>>
    /\ bundler' = "none"
    /\ content' = <<>>
    /\ fileName' = <<>>
    /\ sets' = 0
    /\ result' = NoResult
    /\ UNCHANGED <<op, sink, type, retries, error, arg, req, retval, options,
                   bundlerOpts, feedIdsType, twin, retriesGiven>>

\* fetchFeeds(sink, ids, retries = 0)
CallFetchFeeds ==
    /\ UNCHANGED more
    /\ pc = "idle"
    /\ \E l \in SeqsUpTo(FeedIdSet, MaxIds), given \in BOOLEAN,
          r \in 0..MaxRetries :
        /\ given \/ r = 0
        /\ op' = "fetchFeeds"
        /\ ids' = l
        /\ retriesGiven' = given
        /\ retries' = RetriesParameter(given, r)
        /\ tasks' = [i \in 1..Len(l) |-> NewTask]
        /\ all' = IF l = <<>> THEN [st |-> "fulfilled", err |-> NoError]
                  ELSE PendingAll
    /\ pc' = "fetch"
    /\ UNCHANGED <<sink, type, uri, order, fetched, parsed, bundler, content,
                   fileName, sets, result, error, arg, req, retval>>

\* parseFeeds(rawFeeds)
CallParseFeeds ==
    /\ UNCHANGED <<more, retriesGiven>>
    /\ pc = "idle"
    /\ \E raw \in SeqsUpTo({TextA, TextB, TextBad}, MaxIds) :
        /\ op' = "parseFeeds"
        /\ fetched' = raw
    /\ pc' = "parse"
    /\ UNCHANGED <<sink, type, ids, uri, retries, tasks, order, all, parsed,
                   bundler, content, fileName, sets, result, error, arg, req,
                   retval>>

\* bundleFeeds(feeds, type), as its callers call it: some with a third
\* argument, the options.
CallBundleFeeds ==
    /\ pc = "idle"
    /\ \E f \in SeqsUpTo({1, 2}, MaxIds), t \in Types, o \in OptionValues :
        /\ op' = "bundleFeeds"
        /\ parsed' = f
        /\ type' = t
        /\ options' = o
    /\ pc' = "bundle"
    /\ UNCHANGED <<sink, ids, uri, retries, tasks, order, all, fetched,
                   bundler, content, fileName, sets, result, error, arg, req,
                   retval, bundlerOpts, feedIdsType, run, first, twin,
                   retriesGiven>>

\* upload(sink, fileName, content, retries = 0)
CallUpload ==
    /\ UNCHANGED more
    /\ pc = "idle"
    /\ \E given \in BOOLEAN, r \in 0..MaxRetries,
          c \in {<<106, 1>>, <<99, 2>>} :
        /\ given \/ r = 0
        /\ op' = "upload"
        /\ fileName' = <<"filename", ".", "js">>
        /\ content' = c
        /\ retriesGiven' = given
        /\ retries' = RetriesParameter(given, r)
    /\ pc' = "upload"
    /\ UNCHANGED <<sink, type, ids, uri, tasks, order, all, fetched, parsed,
                   bundler, sets, result, error, arg, req, retval>>

\* validateFeeds(feeds): schemas.ids.validate, any failure boomified to 400.
CallValidateFeeds ==
    /\ UNCHANGED <<more, retriesGiven>>
    /\ pc = "idle"
    /\ \E v \in Values :
        /\ op' = "validateFeeds"
        /\ arg' = v
        /\ IF IdsError(v)
              THEN /\ pc' = "failed"
                   /\ error' = Boomify(PlainError(<<"ValidationError">>), 400,
                                       ValidateMessage)
                   /\ retval' = retval
              ELSE /\ pc' = "done"
                   /\ retval' = IdsValue(v)
                   /\ error' = error
    /\ UNCHANGED <<sink, type, ids, uri, retries, tasks, order, all, fetched,
                   parsed, bundler, content, fileName, sets, result, req>>

\* parseBody(req, res): body/json, any failure boomified to 400.
CallParseBody ==
    /\ UNCHANGED <<more, retriesGiven>>
    /\ pc = "idle"
    /\ \E q \in Requests :
        /\ op' = "parseBody"
        /\ req' = q
        /\ IF BodyThrows(q)
              THEN /\ pc' = "failed"
                   /\ error' = Boomify(PlainError(<<"SyntaxError">>), 400,
                                       BodyMessage)
                   /\ retval' = retval
              ELSE /\ pc' = "done"
                   /\ retval' = q.value
                   /\ error' = error
    /\ UNCHANGED <<sink, type, ids, uri, retries, tasks, order, all, fetched,
                   parsed, bundler, content, fileName, sets, result, arg>>

\* ------------------------------------------------------------------- fetch

\* Fault variant: bundleAndUpload catches the failure of a step and
\* boomifies it once more under a message of its own.
SurfacedRewrapped(o, err) ==
    IF o = "bundleAndUpload"
        THEN Boomify(err, DefaultStatus, <<"Unable to bundle and upload.">>)
        ELSE err

\* How the error a step threw leaves the operation `o`: bundleAndUpload
\* awaits its steps outside any try/catch, so it leaves as it was thrown.
Surfaced(o, err) == err


\* One attempt of the p-retry task of ids[i]: run(file) calls sink.get; a
\* not-found becomes an AbortError that ends the task at once, any other
\* failure is retried while attempts are left.
TaskAfter(t, file, o, r) ==
    IF o.ok
        THEN [t EXCEPT !.st = "fulfilled", !.gets = @ + 1, !.val = o.val]
    ELSE IF IsSinkNotFound(o.err)
        THEN [t EXCEPT !.st = "rejected", !.gets = @ + 1,
                       !.err = PlainError(NotFoundMessage(file))]
    ELSE IF RetryAgain(t.gets + 1, r)
        THEN [t EXCEPT !.gets = @ + 1]
    ELSE [t EXCEPT !.st = "rejected", !.gets = @ + 1, !.err = o.err]

\* What the sink answered, kept per task: `nf` counts its not-found
\* answers, `fails` its other failures.
Observed(t, file, o) ==
    [t EXCEPT !.nf = @ + (IF o.err = SinkNotFoundError(file) THEN 1 ELSE 0),
              !.fails = @ + (IF o.err = SinkTransientError THEN 1 ELSE 0)]

\* Fault variant: as long as it was not fulfilled the aggregate takes the
\* error of a not-found task when there is one, whenever that task settled.
AllAfterPrefersNotFound(a, ts) ==
    IF a.st = "fulfilled" THEN a
    ELSE IF \E i \in 1..Len(ts) : ts[i].st = "rejected" /\ ts[i].nf > 0
        THEN [st |-> "rejected",
              err |-> ts[CHOOSE i \in 1..Len(ts) :
                            ts[i].st = "rejected" /\ ts[i].nf > 0].err]
    ELSE IF a.st = "rejected" THEN a
    ELSE IF \E i \in 1..Len(ts) : ts[i].st = "rejected"
        THEN [st |-> "rejected",
              err |-> ts[CHOOSE i \in 1..Len(ts) : ts[i].st = "rejected"].err]
    ELSE IF \A i \in 1..Len(ts) : ts[i].st = "fulfilled"
        THEN [st |-> "fulfilled", err |-> NoError]
    ELSE a

\* Fault variant: the aggregate never settles.
AllAfterNeverSettles(a, ts) == a

\* Fault variant: the aggregate waits until every task has settled before
\* it rejects.
AllAfterWaits(a, ts) ==
    IF a.st # "pending" THEN a
    ELSE IF \E i \in 1..Len(ts) : ts[i].st = "pending" THEN a
    ELSE IF \E i \in 1..Len(ts) : ts[i].st = "rejected"
        THEN [st |-> "rejected",
              err |-> ts[CHOOSE i \in 1..Len(ts) : ts[i].st = "rejected"].err]
    ELSE [st |-> "fulfilled", err |-> NoError]

\* Promise.all settles once: fulfilled when every task is, rejected with
\* the error of the first task that is rejected.
AllAfter(a, ts) ==
    IF a.st # "pending" THEN a
    ELSE IF \E i \in 1..Len(ts) : ts[i].st = "rejected"
        THEN [st |-> "rejected",
              err |-> ts[CHOOSE i \in 1..Len(ts) : ts[i].st = "rejected"].err]
    ELSE IF \A i \in 1..Len(ts) : ts[i].st = "fulfilled"
        THEN [st |-> "fulfilled", err |-> NoError]
    ELSE a

\* Fault variant: the tasks are cancelled when the failure is thrown.
TaskCancelledOnFailure(t, a) == t.st = "pending" /\ pc # "failed"

\* Fault variant: no attempt is issued once the aggregate was rejected.
TaskStopsAfterFailure(t, a) == t.st = "pending" /\ a.st = "pending"

\* ids.map(file => pretry(run(file), {retries})): each task is started by
\* the map and goes on by itself until it settles, whatever became of the
\* other tasks and of the aggregate `a`.
TaskMayRun(t, a) == t.st = "pending"

SinkGetAttempt(i) ==
    /\ UNCHANGED <<more, retriesGiven>>
    /\ i \in 1..Len(tasks)
    /\ TaskMayRun(tasks[i], all)
    /\ \E o \in SinkGetOutcomes(sink, ids[i]) :
        LET t == Observed(TaskAfter(tasks[i], ids[i], o, retries), ids[i], o)
            ts == [tasks EXCEPT ![i] = t]
        IN  /\ tasks' = ts
            /\ order' = IF t.st = "fulfilled" THEN Append(order, i) ELSE order
            /\ all' = AllAfter(all, ts)
    /\ UNCHANGED <<op, pc, sink, type, ids, uri, retries, fetched, parsed,
                   bundler, content, fileName, sets, result, error, arg, req,
                   retval>>

\* return await Promise.all(...)
FetchReturn ==
    /\ UNCHANGED <<more, retriesGiven>>
    /\ pc = "fetch"
    /\ all.st = "fulfilled"
    /\ fetched' = PromiseAll(tasks, order)
    /\ pc' = IF op = "fetchFeeds" THEN "done" ELSE "parse"
    /\ UNCHANGED <<op, sink, type, ids, uri, retries, tasks, order, all,
                   parsed, bundler, content, fileName, sets, result, error,
                   arg, req, retval>>

\* catch (err) { throw Boom.boomify(err, {statusCode: ..., message: ...}) }
FetchCatch ==
    /\ UNCHANGED <<more, retriesGiven>>
    /\ pc = "fetch"
    /\ all.st = "rejected"
    /\ error' = Surfaced(op, Boomify(all.err, FetchStatus(all.err),
                                     FetchMessage))
    /\ pc' = "failed"
    /\ UNCHANGED <<op, sink, type, ids, uri, retries, tasks, order, all,
                   fetched, parsed, bundler, content, fileName, sets, result,
                   arg, req, retval>>

\* ----------------------------------------------------- parse, bundle, upload

\* parseFeeds(rawFeeds): rawFeeds.map(JSON.parse), a throw boomified (500).
ParseFeeds ==
    /\ UNCHANGED <<more, retriesGiven>>
    /\ pc = "parse"
    /\ IF ParseThrows(fetched)
          THEN /\ error' = Surfaced(op, Boomify(PlainError(<<"SyntaxError">>),
                                                DefaultStatus, ParseMessage))
               /\ pc' = "failed"
               /\ parsed' = parsed
          ELSE /\ parsed' = ParsedFeeds(fetched)
               /\ pc' = IF op = "parseFeeds" THEN "done" ELSE "bundle"
               /\ error' = error
    /\ UNCHANGED <<op, sink, type, ids, uri, retries, tasks, order, all,
                   fetched, bundler, content, fileName, sets, result, arg,
                   req, retval>>

\* bundleCSS(feeds) / bundleJS(feeds): the bundler is called with the feeds
\* and nothing else, whatever bundleFeeds was given after feeds and type.
BundlerArguments(opts) == NoOptions

\* bundleFeeds(feeds, type): the bundler chosen by type either returns the
\* bundle or throws, and a throw is boomified (500).  In bundleAndUpload
\* the file name is composed right after.
BundleFeeds ==
    /\ pc = "bundle"
    /\ bundler' = BundlerFor(type)
    /\ bundlerOpts' = BundlerArguments(options)
    /\ \E ok \in BOOLEAN :
        IF ok
            THEN /\ content' = BundleOf(parsed, bundler')
                 /\ fileName' = IF op = "bundleAndUpload"
                                   THEN FileNameOf(content', type)
                                   ELSE fileName
                 /\ pc' = IF op = "bundleFeeds" THEN "done" ELSE "upload"
                 /\ error' = error
            ELSE /\ error' = Surfaced(op, Boomify(BundlerRawError,
                                                  DefaultStatus,
                                                  BundleMessage(bundler')))
                 /\ pc' = "failed"
                 /\ UNCHANGED <<content, fileName>>
    /\ UNCHANGED <<op, sink, type, ids, uri, retries, tasks, order, all,
                   fetched, parsed, sets, result, arg, req, retval, options,
                   feedIdsType, run, first, twin, retriesGiven>>

\* One attempt of pretry(() => sink.set(fileName, content), {retries}):
\* every failure is retried while attempts are left, and the last one is
\* boomified (500).  In bundleAndUpload a success is followed by
\* return {file, uri}.
SinkSetAttempt ==
    /\ UNCHANGED <<more, retriesGiven>>
    /\ pc = "upload"
    /\ sets' = sets + 1
    /\ \E o \in SinkSetOutcomes(fileName) :
        IF o.ok
            THEN /\ sink' = SinkSet(sink, fileName, content)
                 /\ pc' = "done"
                 /\ result' = IF op = "bundleAndUpload"
                                 THEN ResultOf(uri, fileName)
                                 ELSE result
                 /\ error' = error
            ELSE /\ IF RetryAgain(sets', retries)
                       THEN UNCHANGED <<pc, error>>
                       ELSE /\ pc' = "failed"
                            /\ error' =
                                 Surfaced(op, Boomify(o.err, DefaultStatus,
                                                      UploadMessage(fileName)))
                 /\ UNCHANGED <<sink, result>>
    /\ UNCHANGED <<op, type, ids, uri, retries, tasks, order, all, fetched,
                   parsed, bundler, content, fileName, arg, req, retval>>

\* ----------------------------------------------- two calls at the same time

\* Two bundleAndUpload calls with the same arguments on the same sink, the
\* second started before the first made any step.  Each call has its own
\* locals: those of the first are the variables of a single call, those of
\* the second are the fields of `twin`.
TwinTypes == {"js", "css"}

TwinFeedIds == SeqsUpTo({FeedA, FeedB}, TwinMaxIds) \ {<<>>}

CallBundleAndUploadTwice ==
    /\ pc = "idle"
    /\ \E t \in TwinTypes, l \in {x \in TwinFeedIds : AssertOk("array", x)} :
        /\ op' = "bundleAndUpload"
        /\ type' = t
        /\ feedIdsType' = "array"
        /\ ids' = l
        /\ uri' = BaseUri
        /\ pc' = "fetch"
        /\ retries' = PipelineRetries
        /\ tasks' = [i \in 1..Len(l) |-> NewTask]
        /\ twin' = [twin EXCEPT !.pc = "fetch",
                                !.tasks = [i \in 1..Len(l) |-> NewTask]]
    /\ UNCHANGED <<sink, order, all, fetched, parsed, bundler, content,
                   fileName, sets, result, error, arg, req, retval, options,
                   bundlerOpts, run, first, retriesGiven>>

\* The variables no step of the second call touches.
twinFrame == <<op, pc, type, ids, uri, retries, tasks, order, all, fetched,
               parsed, bundler, content, fileName, sets, result, error, arg,
               req, retval, options, bundlerOpts, feedIdsType, run, first,
               retriesGiven>>

\* One sink.get attempt of the second call's task for ids[i].
TwinSinkGetAttempt(i) ==
    /\ i \in 1..Len(twin.tasks)
    /\ TaskMayRun(twin.tasks[i], twin.all)
    /\ \E o \in SinkGetOutcomes(sink, ids[i]) :
        LET t == Observed(TaskAfter(twin.tasks[i], ids[i], o, retries),
                          ids[i], o)
            ts == [twin.tasks EXCEPT ![i] = t]
        IN  twin' = [twin EXCEPT !.tasks = ts, !.all = AllAfter(twin.all, ts)]
    /\ UNCHANGED <<sink, twinFrame>>

\* Promise.all hands back the values by position, so the order in which
\* the tasks completed is not kept for the second call.
TwinFetchReturn ==
    /\ twin.pc = "fetch"
    /\ twin.all.st = "fulfilled"
    /\ twin' = [twin EXCEPT !.fetched = PromiseAll(twin.tasks, <<>>),
                            !.pc = "parse"]
    /\ UNCHANGED <<sink, twinFrame>>

TwinFetchCatch ==
    /\ twin.pc = "fetch"
    /\ twin.all.st = "rejected"
    /\ twin' = [twin EXCEPT
                  !.error = Surfaced(op, Boomify(twin.all.err,
                                                 FetchStatus(twin.all.err),
                                                 FetchMessage)),
                  !.pc = "failed"]
    /\ UNCHANGED <<sink, twinFrame>>

TwinParseFeeds ==
    /\ twin.pc = "parse"
    /\ twin' = IF ParseThrows(twin.fetched)
                  THEN [twin EXCEPT
                          !.error = Surfaced(op,
                                       Boomify(PlainError(<<"SyntaxError">>),
                                               DefaultStatus, ParseMessage)),
                          !.pc = "failed"]
                  ELSE [twin EXCEPT !.parsed = ParsedFeeds(twin.fetched),
                                    !.pc = "bundle"]
    /\ UNCHANGED <<sink, twinFrame>>

TwinBundleFeeds ==
    /\ twin.pc = "bundle"
    /\ \E ok \in BOOLEAN :
        twin' = IF ok
                  THEN [twin EXCEPT
                          !.content = BundleOf(twin.parsed, BundlerFor(type)),
                          !.fileName =
                              FileNameOf(BundleOf(twin.parsed,
                                                  BundlerFor(type)), type),
                          !.pc = "upload"]
                  ELSE [twin EXCEPT
                          !.error = Surfaced(op,
                                       Boomify(BundlerRawError, DefaultStatus,
                                          BundleMessage(BundlerFor(type)))),
                          !.pc = "failed"]
    /\ UNCHANGED <<sink, twinFrame>>

TwinSinkSetAttempt ==
    /\ twin.pc = "upload"
    /\ \E o \in SinkSetOutcomes(twin.fileName) :
        IF o.ok
            THEN /\ sink' = SinkSet(sink, twin.fileName, twin.content)
                 /\ twin' = [twin EXCEPT
                               !.sets = @ + 1,
                               !.result = ResultOf(uri, twin.fileName),
                               !.pc = "done"]
            ELSE /\ sink' = sink
                 /\ twin' = IF RetryAgain(twin.sets + 1, retries)
                               THEN [twin EXCEPT !.sets = @ + 1]
                               ELSE [twin EXCEPT
                                       !.sets = @ + 1,
                                       !.error = Surfaced(op,
                                          Boomify(o.err, DefaultStatus,
                                             UploadMessage(twin.fileName))),
                                       !.pc = "failed"]
    /\ UNCHANGED twinFrame

\* ------------------------------------------------------------ specification

Next ==
    \/ CallBundleAndUpload
    \/ CallBundleAndUploadAgain
    \/ CallFetchFeeds
    \/ CallParseFeeds
    \/ CallBundleFeeds
    \/ CallUpload
    \/ CallValidateFeeds
    \/ CallParseBody
    \/ \E i \in 1..MaxIds : SinkGetAttempt(i)
    \/ FetchReturn
    \/ FetchCatch
    \/ ParseFeeds
    \/ BundleFeeds
    \/ SinkSetAttempt

Spec == Init /\ [][Next]_vars

\* The same calls when every sink.get, sink.set and bundler call that was
\* made settles in the end, and the continuation of an await that has
\* settled runs: each step that stays possible is taken.  Nothing obliges a
\* caller to call.
Settles ==
    /\ \A i \in 1..LiveMaxIds : WF_vars(SinkGetAttempt(i))
    /\ WF_vars(FetchReturn)
    /\ WF_vars(FetchCatch)
    /\ WF_vars(ParseFeeds)
    /\ WF_vars(BundleFeeds)
    /\ WF_vars(SinkSetAttempt)

CallBundleAndUploadShort == CallBundleAndUpload /\ Len(ids') <= LiveMaxIds

NextFair ==
    \/ CallBundleAndUploadShort
    \/ CallBundleAndUploadAgain
    \/ \E i \in 1..LiveMaxIds : SinkGetAttempt(i)
    \/ FetchReturn
    \/ FetchCatch
    \/ ParseFeeds
    \/ BundleFeeds
    \/ SinkSetAttempt

SpecFair == Init /\ [][NextFair]_vars /\ Settles

\* Two identical bundleAndUpload calls, their steps interleaved at will.
NextTwin ==
    \/ CallBundleAndUploadTwice
    \/ \E i \in 1..TwinMaxIds : SinkGetAttempt(i)
    \/ FetchReturn
    \/ FetchCatch
    \/ ParseFeeds
    \/ BundleFeeds
    \/ SinkSetAttempt
    \/ \E i \in 1..TwinMaxIds : TwinSinkGetAttempt(i)
    \/ TwinFetchReturn
    \/ TwinFetchCatch
    \/ TwinParseFeeds
    \/ TwinBundleFeeds
    \/ TwinSinkSetAttempt

SpecTwin == Init /\ [][NextTwin]_vars

\* ------------------------------------------------------------------ claims

\* a '*.json' id: its name ends in ".json"
IsJsonId(id) == Len(id) >= 2 /\ id[Len(id)] = "json" /\ id[Len(id) - 1] = "."

Fetching == op \in {"bundleAndUpload", "fetchFeeds"}

Present(id) == id \in DOMAIN sink

\* C1: a bundleAndUpload that returns was given a non-empty list of ids
\* that are all present in the sink as valid JSON; it returns {file, uri}
\* with file = sha256hex(content) + '.' + type and uri = the given uri +
\* file, content being what the invoked bundler produces for the parsed
\* feeds in the order of feedIds, and the sink holds that content under
\* file.  With all ids present and valid it fails only when a sink.get
\* ran out of attempts, the bundler threw or sink.set ran out of attempts.
C1_BundleAndUploadResult ==
    /\ (op = "bundleAndUpload" /\ pc = "done") =>
        /\ Len(ids) > 0
        /\ \A i \in 1..Len(ids) : Present(ids[i]) /\ IsJson(sink[ids[i]])
        /\ bundler \in {"js", "css"}
        /\ content = BundleOf([i \in 1..Len(ids) |-> JSONparse(sink[ids[i]])],
                              bundler)
        /\ result.file = createHashFromContent(content) \o <<".", type>>
        /\ result.uri = uri \o result.file
        /\ result.file \in DOMAIN sink
        /\ sink[result.file] = content
    /\ (/\ op = "bundleAndUpload" /\ pc = "failed" /\ Len(ids) > 0
        /\ \A i \in 1..Len(ids) : Present(ids[i]) /\ IsJson(sink[ids[i]])) =>
        \/ \E i \in 1..Len(ids) : tasks[i].fails = retries + 1
        \/ bundler # "none" /\ sets = 0 /\ error.cause = BundlerRawError.message
        \/ sets = retries + 1

C1_Witness ==
    /\ op = "bundleAndUpload" /\ pc = "done"
    /\ ids = <<FeedB, FeedA>>
    /\ sets = 2

\* C2 as stated: a list with at least one absent '*.json' id and no
\* transient read failure always ends in a 404 failure without sink.set.
C2_AnyAbsentJsonIdGives404 ==
    (/\ op = "bundleAndUpload"
     /\ \E i \in 1..Len(ids) : IsJsonId(ids[i]) /\ ~Present(ids[i])
     /\ \A i \in 1..Len(ids) : tasks[i].st # "pending" /\ tasks[i].fails = 0
     /\ pc # "fetch") =>
        (pc = "failed" /\ error.status = 404 /\ sets = 0)

\* C2 amended: when at least one id is absent from the sink, every absent
\* id of the list is a '*.json' id and no sink read has failed
\* transiently, bundleAndUpload does not get past the fetch, fails with
\* status 404, and sink.set is never invoked.
C2_OnlyJsonIdsAbsentGives404 ==
    (/\ op = "bundleAndUpload"
     /\ \E i \in 1..Len(ids) : ~Present(ids[i])
     /\ \A i \in 1..Len(ids) : ~Present(ids[i]) => IsJsonId(ids[i])
     /\ \A i \in 1..Len(ids) : tasks[i].fails = 0) =>
        /\ pc \in {"fetch", "failed"}
        /\ sets = 0
        /\ bundler = "none"
        /\ pc = "failed" => (error.isBoom /\ error.status = 404)

C2_Witness ==
    /\ op = "bundleAndUpload" /\ pc = "failed"
    /\ ids = <<FeedA, MissingJson>>
    /\ tasks[1].st = "fulfilled" /\ tasks[1].fails = 0
    /\ tasks[2].nf = 1 /\ tasks[2].fails = 0
    /\ error.status = 404

\* C3 as stated: an id whose sink.get fails with not-found is read
\* exactly once, and the fetch fails.
C3_NotFoundIdReadExactlyOnce ==
    Fetching =>
        \A i \in 1..Len(tasks) :
            tasks[i].nf > 0 => (tasks[i].gets = 1 /\ all.st = "rejected")

\* C3 amended: the not-found answer of sink.get for an id is the last
\* sink.get for that id, whatever the value of retries: the task is
\* rejected at once, it has made one call more than the transient
\* failures that came before (so exactly one call when none did), and the
\* whole fetchFeeds call fails.
C3_NotFoundIsLastRead ==
    Fetching =>
        \A i \in 1..Len(tasks) :
            tasks[i].nf > 0 =>
                /\ tasks[i].nf = 1
                /\ tasks[i].st = "rejected"
                /\ tasks[i].gets = tasks[i].fails + 1
                /\ tasks[i].fails = 0 => tasks[i].gets = 1
                /\ all.st = "rejected"
                /\ pc \in {"fetch", "failed"}

C3_Witness ==
    /\ op = "fetchFeeds" /\ pc = "failed"
    /\ retries = 2
    /\ Len(tasks) = 2
    /\ tasks[1].nf = 1 /\ tasks[1].gets = 1
    /\ tasks[2].st = "fulfilled"

\* C4: bounded retry.  A sink.get task that has seen k <= retries transient
\* failures (and no not-found) is not rejected, and is fulfilled by the
\* next successful answer; after retries + 1 transient failures in a row
\* it is rejected and the fetch fails; fetchFeeds succeeds when every
\* task is fulfilled.  For upload: while at most `retries` sink.set calls
\* have failed the upload has not failed, a successful sink.set ends it
\* with success, and the (retries + 1)-th failure in a row fails it.
C4_BoundedRetry ==
    /\ Fetching =>
        /\ \A i \in 1..Len(tasks) :
            /\ tasks[i].fails <= retries + 1
            /\ (tasks[i].st = "rejected" /\ tasks[i].nf = 0) =>
                    tasks[i].fails = retries + 1
            /\ tasks[i].fails = retries + 1 =>
                    (tasks[i].st = "rejected" /\ all.st = "rejected"
                        /\ pc \in {"fetch", "failed"})
            /\ tasks[i].st = "fulfilled" =>
                    (tasks[i].gets = tasks[i].fails + 1 /\ tasks[i].nf = 0)
        /\ (pc = "failed" /\ sets = 0 /\ bundler = "none" /\ parsed = <<>>
                /\ error.message = FetchMessage) =>
                \E i \in 1..Len(tasks) : tasks[i].st = "rejected"
        /\ (op = "fetchFeeds" /\ pc = "done") =>
                \A i \in 1..Len(tasks) : tasks[i].st = "fulfilled"
    /\ op \in {"upload", "bundleAndUpload"} =>
        /\ sets <= retries + 1
        /\ (pc = "failed" /\ sets > 0) => sets = retries + 1
        /\ pc = "upload" => sets <= retries
        /\ (op = "upload" /\ pc = "done") =>
                (sets >= 1 /\ sink[fileName] = content)

C4_Witness ==
    /\ op = "fetchFeeds" /\ pc = "done"
    /\ retries = 2
    /\ Len(tasks) = 2
    /\ tasks[1].fails = 1
    /\ tasks[2].fails = 2

\* C5: order preservation.  When fetchFeeds has returned, element i of its
\* result is the content the sink holds (and returned) for ids[i], for
\* every i, whatever the order in which the reads completed and however
\* many retries each id took.
C5_OrderPreserved ==
    (Fetching /\ all.st = "fulfilled" /\ pc # "fetch") =>
        /\ Len(fetched) = Len(ids)
        /\ \A i \in 1..Len(ids) :
            /\ fetched[i] = sink[ids[i]]
            /\ fetched[i] = tasks[i].val

C5_Witness ==
    /\ op = "fetchFeeds" /\ pc = "done"
    /\ ids = <<FeedA, FeedB>>
    /\ order = <<2, 1>>
    /\ tasks[1].fails = 2
    /\ fetched = <<TextA, TextB>>

\* The fetch step is what failed: Promise.all was rejected and the catch
\* block of fetchFeeds has run.
FetchFailed == Fetching /\ pc = "failed" /\ all.st = "rejected"

\* C6: the failure of fetchFeeds carries status 404 when the per-id
\* failure that rejected the batch is a not-found for a '*.json' id, and
\* status 500 in every other case; the message is the fixed text.
C6_FetchFailureStatus ==
    FetchFailed =>
        /\ error.message = FetchMessage
        /\ error.status =
            IF \E i \in 1..Len(ids) :
                    /\ tasks[i].nf > 0
                    /\ IsJsonId(ids[i])
                    /\ all.err.message = NotFoundMessage(ids[i])
               THEN 404 ELSE 500

\* C7: validateFeeds rejects the empty list and a list with an entry that
\* is not a string, parseBody rejects an empty or blank body, each with a
\* status 400 error; neither of the two reads or writes the sink.
C7_ValidationBoundary ==
    /\ (op = "validateFeeds" /\ arg.t = "array") =>
        ((\/ arg.items = <<>>
          \/ \E i \in 1..Len(arg.items) : arg.items[i].t # "string") =>
            (pc = "failed" /\ error.isBoom /\ error.status = 400
                /\ error.message = ValidateMessage))
    /\ (op = "parseBody" /\ req.text \in {"empty", "blank"}) =>
            (pc = "failed" /\ error.isBoom /\ error.status = 400
                /\ error.message = BodyMessage)
    /\ op \in {"validateFeeds", "parseBody"} =>
        /\ pc \in {"done", "failed"}
        /\ tasks = <<>> /\ sets = 0 /\ sink = InitialSink
        /\ pc = "failed" => error.status = 400

C7_Witness ==
    /\ op = "validateFeeds" /\ pc = "failed"
    /\ arg = Arr(<<Str("a.json"), Num>>)
    /\ error.status = 400

\* C8: validateFeeds returns its argument exactly when that is an array
\* of 1 to 100 entries, each a non-empty string; every other value is
\* rejected with a status 400 error.
C8_AcceptsExactlyValidArrays ==
    op = "validateFeeds" =>
        LET good == /\ arg.t = "array"
                    /\ Len(arg.items) >= 1
                    /\ Len(arg.items) <= 100
                    /\ \A i \in 1..Len(arg.items) :
                            arg.items[i].t = "string" /\ arg.items[i].s # ""
        IN  IF good THEN pc = "done" /\ retval = arg
            ELSE pc = "failed" /\ error.isBoom /\ error.status = 400

\* C9: when a fetched feed is not valid JSON, bundleAndUpload fails with
\* a boomified status 500 error with the parse message and the decode
\* error as cause; no parsed list exists, no bundler and no sink.set is
\* invoked.
C9_ParseFailure ==
    (/\ op = "bundleAndUpload"
     /\ pc \notin {"idle", "fetch", "parse"}
     /\ \E i \in 1..Len(fetched) : ~IsJson(fetched[i])) =>
        /\ pc = "failed"
        /\ error = [isBoom |-> TRUE, status |-> 500, message |-> ParseMessage,
                    cause |-> <<"SyntaxError">>]
        /\ parsed = <<>>
        /\ bundler = "none"
        /\ content = <<>>
        /\ sets = 0
        /\ sink = InitialSink

C9_Witness ==
    /\ op = "bundleAndUpload" /\ pc = "failed"
    /\ ids = <<FeedA, BadFeed>>
    /\ fetched = <<TextA, TextBad>>
    /\ error.message = ParseMessage

\* C10: bundleFeeds invokes the CSS bundler when type is exactly 'css' and
\* the JS bundler for every other type; a bundler failure surfaces as a
\* boomified error with the CSS message in the first case and the JS
\* message in the second, the bundler's own error being only its cause.
C10_BundlerDispatch ==
    bundler # "none" =>
        /\ bundler = (IF type = "css" THEN "css" ELSE "js")
        /\ pc # "failed" =>
            content = (IF type = "css" THEN bundleCSS(parsed)
                       ELSE bundleJS(parsed))
        /\ (pc = "failed" /\ sets = 0) =>
            /\ error.isBoom
            /\ error.message =
                (IF type = "css" THEN <<"Unable to bundle feeds as CSS.">>
                 ELSE <<"Unable to bundle feeds as JS.">>)
            /\ error # BundlerRawError
            /\ error.cause = BundlerRawError.message

C10_Witness ==
    /\ op = "bundleFeeds" /\ pc = "failed"
    /\ type = "html"
    /\ bundler = "js"
    /\ error.message = <<"Unable to bundle feeds as JS.">>

\* C11 as stated: the options given to bundleFeeds are forwarded verbatim
\* to the bundler it invokes, so the bundler receives exactly the options
\* the caller passed.
C11_OptionsForwarded ==
    (op = "bundleFeeds" /\ bundler # "none") => bundlerOpts = options

\* C12 as stated: when sink.set fails on every attempt, upload fails with
\* a boomified error whose message is 'Unable to upload file with name
\* "<fileName>"' followed by whatever else, the sink's last error being
\* kept as its cause; every kind of sink.set failure is retried, so the
\* failure comes only after retries + 1 attempts.
C12_UploadFailureMessage ==
    (op \in {"upload", "bundleAndUpload"} /\ pc = "failed" /\ sets > 0) =>
        /\ sets = retries + 1
        /\ error.isBoom
        /\ error.cause \in {SinkTransientError.message,
                            SinkNotFoundError(fileName).message}
        /\ Len(error.message) >= Len(TestedUploadMessage(fileName))
        /\ SubSeq(error.message, 1, Len(TestedUploadMessage(fileName)))
               = TestedUploadMessage(fileName)

\* C15: bundleAndUpload adds no wrapping of its own.  Whenever it fails
\* after its assertion, its error is exactly the classified error of the
\* step that failed (fetch, parse, bundle or upload: same status, message
\* and cause), the steps after that one have not run, and once failed the
\* operation stays failed with that same error: it is surfaced once.
C15_NoWrapping ==
    /\ [](  (op = "bundleAndUpload" /\ pc = "failed" /\ tasks # <<>>) =>
              \/ /\ all.st = "rejected"
                 /\ error = Boomify(all.err, FetchStatus(all.err), FetchMessage)
                 /\ error.status \in {404, 500}
                 /\ fetched = <<>> /\ parsed = <<>> /\ bundler = "none"
                 /\ content = <<>> /\ sets = 0 /\ result = NoResult
              \/ /\ all.st = "fulfilled" /\ fetched # <<>>
                 /\ error = Boomify(PlainError(<<"SyntaxError">>), 500,
                                    ParseMessage)
                 /\ parsed = <<>> /\ bundler = "none"
                 /\ content = <<>> /\ sets = 0 /\ result = NoResult
              \/ /\ all.st = "fulfilled" /\ parsed # <<>> /\ bundler # "none"
                 /\ error = Boomify(BundlerRawError, 500, BundleMessage(bundler))
                 /\ content = <<>> /\ sets = 0 /\ result = NoResult
              \/ /\ all.st = "fulfilled" /\ content # <<>> /\ sets > 0
                 /\ \E o \in SinkSetOutcomes(fileName) :
                       /\ ~o.ok
                       /\ error = Boomify(o.err, 500, UploadMessage(fileName))
                 /\ result = NoResult)
    /\ [][(op = "bundleAndUpload" /\ pc = "failed") =>
             /\ pc' = "failed" /\ error' = error
             /\ UNCHANGED <<fetched, parsed, bundler, content, sets, sink,
                            result>>]_vars

\* A run whose upload failed on every attempt, after fetch, parse and
\* bundle had succeeded.
C15_Witness ==
    /\ op = "bundleAndUpload" /\ pc = "failed"
    /\ sets = PipelineRetries + 1
    /\ error = Boomify(SinkTransientError, 500, UploadMessage(fileName))

\* C16 as stated: every file name of a successful bundleAndUpload is 64
\* lowercase hex characters, a dot and an extension that is js or css,
\* whatever type the operation was called with.
C16_ExtensionIsJsOrCss ==
    (op = "bundleAndUpload" /\ pc = "done") =>
        /\ Len(result.file) = 66
        /\ \A i \in 1..64 :
              result.file[i] \in {"0", "1", "2", "3", "4", "5", "6", "7",
                                  "8", "9", "a", "b", "c", "d", "e", "f"}
        /\ result.file[65] = "."
        /\ result.file[66] \in {"js", "css"}

\* C16 amended: every file name of a successful bundleAndUpload is 64
\* lowercase hex characters, a dot and the type the operation was called
\* with as extension; the extension is js or css exactly when the type is.
C16_ExtensionIsTheType ==
    (op = "bundleAndUpload" /\ pc = "done") =>
        /\ Len(result.file) = 66
        /\ \A i \in 1..64 :
              result.file[i] \in {"0", "1", "2", "3", "4", "5", "6", "7",
                                  "8", "9", "a", "b", "c", "d", "e", "f"}
        /\ result.file[65] = "."
        /\ result.file[66] = type
        /\ (result.file[66] \in {"js", "css"}) <=> (type \in {"js", "css"})

C16_Witness ==
    /\ op = "bundleAndUpload" /\ pc = "done"
    /\ type = "html"
    /\ result.file = createHashFromContent(bundleJS(<<1, 2>>)) \o <<".", "html">>

\* C18: fetchFeeds has no partial success and fails fast.  From the moment
\* the fetch of one id has failed for good (not-found, or the last allowed
\* attempt failed) the call is rejected: it can fail at once, whether the
\* fetches of the other ids have completed or not, it can no longer
\* return, and it hands back none of the contents read for the other ids.
C18_NoPartialSuccessFailFast ==
    (Fetching /\ \E i \in 1..Len(tasks) : tasks[i].st = "rejected") =>
        /\ all.st = "rejected"
        /\ pc \in {"fetch", "failed"}
        /\ pc = "fetch" => (ENABLED FetchCatch /\ ~ENABLED FetchReturn)
        /\ fetched = <<>>
        /\ parsed = <<>> /\ content = <<>> /\ result = NoResult

\* fetchFeeds has failed on the second id while the fetch of the first has
\* not made any attempt yet.
C18_Witness ==
    /\ op = "fetchFeeds" /\ pc = "failed"
    /\ Len(tasks) = 2
    /\ tasks[1].st = "pending" /\ tasks[1].gets = 0
    /\ tasks[2].st = "rejected"
    /\ fetched = <<>>

\* C19: in fetchFeeds the first sink.get attempt for every id is issued
\* whatever happened to the fetch of any other id: as long as an id has
\* had no attempt, its first attempt can be made, also after another id
\* failed transiently or for good and after the call itself has failed.
C19_FirstAttemptAlwaysIssued ==
    Fetching =>
        \A i \in 1..Len(tasks) :
            tasks[i].gets = 0 => ENABLED SinkGetAttempt(i)

\* The first id ran out of attempts, the call has failed, and the second
\* id has had no attempt yet.
C19_Witness ==
    /\ op = "bundleAndUpload" /\ pc = "failed"
    /\ Len(tasks) = 2
    /\ tasks[1].st = "rejected" /\ tasks[1].fails = PipelineRetries + 1
    /\ tasks[2].gets = 0
    /\ ENABLED SinkGetAttempt(2)

\* C20: bundleAndUpload called with an empty feedIds list, or with a
\* feedIds that is no array, fails at once with the assertion's own error
\* (not a boomified one): no sink.get was made, no bundler was called, no
\* sink.set was made, the sink is as it was and nothing is returned.
C20_AssertionBeforeAnyStep ==
    (op = "bundleAndUpload" /\ (feedIdsType # "array" \/ ids = <<>>)) =>
        /\ pc = "failed"
        /\ error = PlainError(AssertionMessage)
        /\ ~error.isBoom
        /\ tasks = <<>> /\ all = PendingAll /\ fetched = <<>>
        /\ parsed = <<>> /\ bundler = "none" /\ content = <<>>
        /\ sets = 0 /\ sink = InitialSink
        /\ result = NoResult

\* feedIds was the string 'a.json', which has a length but is no array.
C20_Witness ==
    /\ op = "bundleAndUpload" /\ pc = "failed"
    /\ feedIdsType = "string"
    /\ error = PlainError(AssertionMessage)

\* C13: idempotent upload.  When bundleAndUpload is run a second time on
\* the same sink with the same type and feedIds, the stored feeds being
\* unchanged, it returns the file name the first run returned, and the
\* bytes the sink holds under that name are the bytes it held after the
\* first run - while the second run is under way and after it.
C13_IdempotentUpload ==
    (op = "bundleAndUpload" /\ run = 2 /\ ids = first.ids) =>
        /\ first.file \in DOMAIN sink
        /\ sink[first.file] = first.bytes
        /\ pc = "done" =>
            /\ result.file = first.file
            /\ sink[result.file] = first.bytes

\* The second run of ['b.json', 'a.json'] has returned after writing the
\* bundle again, its first write having failed.
C13_Witness ==
    /\ op = "bundleAndUpload" /\ run = 2 /\ pc = "done"
    /\ ids = <<FeedB, FeedA>> /\ first.ids = ids
    /\ sets = 2
    /\ result.file = first.file

\* C17: the content address is a function of the bundle bytes only.  When
\* a second bundleAndUpload of the same type has produced the very bytes
\* the first one produced, it composes and returns the file name the first
\* one returned, whatever its feedIds and uri are and whatever the sink
\* holds by then; the name is the hash of those bytes and the type.
C17_AddressFromBytesOnly ==
    (op = "bundleAndUpload" /\ run = 2 /\ fileName # <<>>
     /\ content = first.content) =>
        /\ fileName = first.file
        /\ fileName = createHashFromContent(first.content) \o <<".", type>>
        /\ pc = "done" => result.file = first.file

\* The second run read a2.json in place of a.json, under another uri and
\* from a sink that by then held the first bundle.
C17_Witness ==
    /\ op = "bundleAndUpload" /\ run = 2 /\ pc = "done"
    /\ first.ids = <<FeedA, FeedB>> /\ ids = <<FeedACopy, FeedB>>
    /\ uri = OtherUri
    /\ content = first.content
    /\ result.file = first.file

\* C14: two bundleAndUpload calls with identical inputs running at the
\* same time on the same sink, their sink.get and sink.set attempts
\* interleaved in any way: the names they compose are equal, a call that
\* has returned finds its bundle under the name it returned whatever the
\* other call does, and when both have returned they returned the same
\* file name and the sink holds the bundle bytes under it.  A step of one
\* call changes nothing of the other call: they share the sink alone.
C14_ConcurrentRunsConverge ==
    /\ [](  twin.pc # "idle" =>
              /\ (fileName # <<>> /\ twin.fileName # <<>>) =>
                    (fileName = twin.fileName /\ content = twin.content)
              /\ pc = "done" =>
                    (result.file \in DOMAIN sink /\ sink[result.file] = content)
              /\ twin.pc = "done" =>
                    /\ twin.result.file \in DOMAIN sink
                    /\ sink[twin.result.file] = twin.content
              /\ (pc = "done" /\ twin.pc = "done") =>
                    /\ result.file = twin.result.file
                    /\ result = twin.result
                    /\ sink[result.file] = BundleOf(parsed, bundler))
    /\ [][twin.pc # "idle" =>
             \/ twin' = twin
             \/ UNCHANGED <<pc, tasks, order, all, fetched, parsed, bundler,
                            content, fileName, sets, result, error>>]_vars

\* Both calls have returned, each after a failed and a successful write.
C14_Witness ==
    /\ op = "bundleAndUpload" /\ pc = "done" /\ twin.pc = "done"
    /\ sets = 2 /\ twin.sets = 2
    /\ tasks[1].fails = 1 /\ twin.tasks[1].fails = 2
    /\ result.file = twin.result.file

\* C21: the pipeline neither deletes nor alters a sink object other than
\* its own artifact.  Across a first bundleAndUpload and the one that
\* follows it, no step removes a key, a step that changes the sink is a
\* sink.set of the run under way and changes the one key that run composed
\* (the file name it returns), every other key keeping its bytes; the
\* uploaded feeds and the artifact of the first run are as they were; and a
\* run that failed in its fetch, parse or bundle step has left the sink as
\* it found it.
C21_SinkFrame ==
    /\ [](  op = "bundleAndUpload" =>
              /\ \A k \in DOMAIN InitialSink :
                    k \in DOMAIN sink /\ sink[k] = InitialSink[k]
              /\ run = 2 =>
                    (first.file \in DOMAIN sink
                       /\ sink[first.file] = first.bytes)
              /\ (DOMAIN sink) \ (DOMAIN InitialSink)
                    \subseteq ({fileName} \cup
                                (IF run = 2 THEN {first.file} ELSE {}))
              /\ (pc = "failed" /\ sets = 0) =>
                    sink = (IF run = 2
                               THEN (first.file :> first.bytes) @@ InitialSink
                               ELSE InitialSink))
    /\ [][op = "bundleAndUpload" =>
             /\ DOMAIN sink \subseteq DOMAIN sink'
             /\ \A k \in DOMAIN sink : k # fileName => sink'[k] = sink[k]
             /\ sink' # sink =>
                   /\ pc = "upload" /\ pc' = "done"
                   /\ (DOMAIN sink') \ (DOMAIN sink) \subseteq {fileName}
                   /\ sink'[fileName] = content
                   /\ result'.file = fileName]_vars

\* The second run bundled the feeds in the other order: it has written its
\* own artifact, and the artifact of the first run is still there.
C21_Witness ==
    /\ op = "bundleAndUpload" /\ run = 2 /\ pc = "done"
    /\ first.ids = <<FeedA, FeedB>> /\ ids = <<FeedB, FeedA>>
    /\ result.file # first.file
    /\ sink[first.file] = first.bytes
    /\ sink[result.file] = content
    /\ Cardinality(DOMAIN sink) = Cardinality(DOMAIN InitialSink) + 2

\* C22: attempt bound.  In fetchFeeds(sink, ids, r) sink.get is invoked at
\* most r + 1 times for each id, and each id counts for itself: its
\* attempts are its own failures plus its one success, an id whose first
\* read succeeds is read once, and a pending id that has not used up its
\* attempts can go on whatever the other ids used.  In upload sink.set is
\* invoked at most r + 1 times.  With r left out (0) exactly one attempt is
\* made per id and per upload.  bundleAndUpload passes 3 to both: at most
\* 4 reads per id and 4 writes per run.
C22_AttemptBound ==
    /\ Fetching =>
        \A i \in 1..Len(tasks) :
            /\ tasks[i].gets <= retries + 1
            /\ tasks[i].gets = tasks[i].fails + tasks[i].nf
                    + (IF tasks[i].st = "fulfilled" THEN 1 ELSE 0)
            /\ (tasks[i].st = "fulfilled" /\ tasks[i].fails = 0) =>
                    tasks[i].gets = 1
            /\ tasks[i].st = "pending" =>
                    (tasks[i].gets <= retries /\ ENABLED SinkGetAttempt(i))
            /\ ~retriesGiven =>
                    /\ retries = 0
                    /\ tasks[i].st = "pending" => tasks[i].gets = 0
                    /\ tasks[i].st # "pending" => tasks[i].gets = 1
    /\ op \in {"upload", "bundleAndUpload"} =>
        /\ sets <= retries + 1
        /\ pc = "upload" => sets <= retries
        /\ ~retriesGiven =>
            /\ retries = 0
            /\ pc = "upload" => sets = 0
            /\ pc # "upload" => sets = 1
    /\ (op = "bundleAndUpload" /\ tasks # <<>>) =>
        /\ retriesGiven /\ retries = 3
        /\ \A i \in 1..Len(tasks) : tasks[i].gets <= 4
        /\ sets <= 4

\* fetchFeeds(sink, ['missing.js', 'a.json'], 2): the first id used its
\* three attempts, the second was read once.
C22_Witness ==
    /\ op = "fetchFeeds" /\ retriesGiven /\ retries = 2
    /\ ids = <<MissingJs, FeedA>>
    /\ tasks[1].st = "rejected" /\ tasks[1].gets = 3 /\ tasks[1].fails = 3
    /\ tasks[2].st = "fulfilled" /\ tasks[2].gets = 1

\* C23: stage ordering within one bundleAndUpload run.  A sink.set is made
\* only when every id's sink.get has succeeded, every fetched text has
\* parsed and the bundler has returned the content; every sink.set of the
\* run is made for the one key hash(content).type with that content, which
\* do not change between attempts; and {file, uri} is returned only by
\* the step in which a sink.set attempt succeeds.
C23_StageOrdering ==
    /\ [](  (op = "bundleAndUpload" /\ (pc = "upload" \/ sets > 0)) =>
              /\ \A i \in 1..Len(tasks) : tasks[i].st = "fulfilled"
              /\ all.st = "fulfilled"
              /\ fetched = [i \in 1..Len(ids) |-> tasks[i].val]
              /\ \A i \in 1..Len(fetched) : IsJson(fetched[i])
              /\ parsed = [i \in 1..Len(fetched) |-> JSONparse(fetched[i])]
              /\ bundler \in {"js", "css"}
              /\ content = BundleOf(parsed, bundler)
              /\ fileName = createHashFromContent(content) \o <<".", type>>)
    /\ [](  (op = "bundleAndUpload" /\ result # NoResult) =>
              /\ pc = "done" /\ sets >= 1
              /\ result.file = fileName
              /\ sink[fileName] = content)
    /\ [][op = "bundleAndUpload" =>
             /\ sets' = sets + 1 =>
                   /\ pc = "upload"
                   /\ fileName' = fileName /\ content' = content
                   /\ sink' \in {sink, (fileName :> content) @@ sink}
             /\ (result' # result /\ result' # NoResult) =>
                   /\ sets' = sets + 1
                   /\ sink' = (fileName :> content) @@ sink
                   /\ result' = [file |-> fileName, uri |-> uri \o fileName]
             /\ sink' # sink => (result = NoResult /\ result' # NoResult)]_vars

\* A run of two feeds returned after its third sink.set attempt.
C23_Witness ==
    /\ op = "bundleAndUpload" /\ run = 1 /\ pc = "done"
    /\ ids = <<FeedA, FeedB>>
    /\ sets = 3
    /\ result.file = fileName
    /\ sink[fileName] = bundleCSS(<<1, 2>>)

\* C24: sibling fetches are not cancelled.  After fetchFeeds has failed
\* because of one id, the retry loop of every other id that has not
\* settled goes on: its next sink.get can still be made, within its own
\* bound of retries + 1 attempts; and whatever those attempts bring, the
\* failure the caller received stays as it is.
C24_SiblingsNotCancelled ==
    /\ [](  (Fetching /\ all.st = "rejected") =>
              \A i \in 1..Len(tasks) :
                  /\ tasks[i].gets <= retries + 1
                  /\ tasks[i].st = "pending" =>
                        (tasks[i].gets <= retries /\ ENABLED SinkGetAttempt(i)))
    /\ [][(Fetching /\ pc = "failed") =>
             /\ pc' = "failed" /\ error' = error /\ all' = all
             /\ UNCHANGED <<fetched, parsed, content, sets, result, sink>>
             /\ \A i \in 1..Len(tasks) :
                   tasks[i].st # "pending" => tasks'[i] = tasks[i]]_vars

\* fetchFeeds has thrown the 404 of missing.json while the fetch of
\* a.json, one failed attempt behind it, can still make its next one.
C24_Witness ==
    /\ op = "fetchFeeds" /\ pc = "failed"
    /\ ids = <<MissingJson, FeedA>>
    /\ retries = 2
    /\ error.status = 404
    /\ tasks[2].st = "pending" /\ tasks[2].gets = 1
    /\ ENABLED SinkGetAttempt(2)

\* C25: in a batch with a '*.json' id absent from the sink and another id
\* whose reads fail, the failure of fetchFeeds is that of the id whose
\* fetch is rejected first.  The step that rejects the first id rejects
\* the call with that id's error: the not-found of the '*.json' id, which
\* gives status 404, or the transient error of an id that used up its
\* retries + 1 attempts, which gives status 500.  A rejection that comes
\* later changes nothing, and the one error thrown carries that status.
C25_FirstSettledFailureWins ==
    /\ [][(Fetching /\ all.st = "pending") =>
             \A i \in 1..Len(tasks) :
                 (tasks[i].st = "pending" /\ tasks'[i].st = "rejected") =>
                     /\ all'.st = "rejected"
                     /\ all'.err = tasks'[i].err
                     /\ (IsJsonId(ids[i]) /\ tasks'[i].nf = 1) =>
                           /\ all'.err = PlainError(NotFoundMessage(ids[i]))
                           /\ FetchStatus(all'.err) = 404
                     /\ tasks'[i].nf = 0 =>
                           /\ tasks'[i].fails = retries + 1
                           /\ all'.err = SinkTransientError
                           /\ FetchStatus(all'.err) = 500]_vars
    /\ [][(Fetching /\ all.st = "rejected") =>
             /\ all' = all
             /\ pc = "fetch" =>
                   (pc' = "fetch" \/
                      (pc' = "failed" /\ error'.status = FetchStatus(all.err)
                         /\ error'.cause = all.err.message))
             /\ pc = "failed" => (pc' = "failed" /\ error' = error)]_vars

\* a.json ran out of attempts first, missing.json was found absent after
\* that: fetchFeeds failed with 500.
C25_Witness ==
    /\ op = "fetchFeeds" /\ pc = "failed"
    /\ ids = <<MissingJson, FeedA>>
    /\ retries = 1
    /\ tasks[1].st = "rejected" /\ tasks[1].nf = 1
    /\ tasks[2].st = "rejected" /\ tasks[2].fails = 2
    /\ error.status = 500
    /\ error.cause = SinkTransientError.message

\* C26: termination.  When every sink.get, sink.set and bundler call
\* settles, a bundleAndUpload call that is under way settles in the end:
\* either it has returned {file, uri} and thrown nothing, or it has thrown
\* one error and returned nothing.  No run of sink failures keeps it
\* retrying for ever.
C26_Termination ==
    (op = "bundleAndUpload" /\ pc \notin {"done", "failed"})
        ~> \/ /\ pc = "done"
              /\ result = [file |-> fileName, uri |-> uri \o fileName]
              /\ error = NoError
           \/ /\ pc = "failed"
              /\ error # NoError
              /\ result = NoResult

\* The longest run: four reads of each feed and four writes, the last
\* write failing too.
C26_Witness ==
    /\ op = "bundleAndUpload" /\ pc = "failed"
    /\ Len(tasks) = LiveMaxIds
    /\ \A i \in 1..Len(tasks) : tasks[i].gets = 4
    /\ sets = 4
    /\ error.message = UploadMessage(fileName)

====
